---- MODULE Spec2Model ----
(***************************************************************************)
(* A model of mygem (src/src/lib.rs): the Gemini status taxonomy, the      *)
(* response-header parser, the incremental response framer, request        *)
(* validation/encoding and the one-shot TLS exchange of the client.        *)
(*                                                                         *)
(* A Rust &str is modelled as what it is: a sequence of bytes (0..255)     *)
(* that is well-formed UTF-8.  A &[u8] is any sequence of bytes.           *)
(***************************************************************************)
EXTENDS Integers, Sequences, FiniteSets, TLC

VARIABLES
    call,     \* the operation invoked and its argument: [fn, arg]
    pc,       \* position of the running operation
    reader,   \* Response::read: the byte source: bytes taken so far, and its state
    header,   \* Response::read: local `header` (Option<ResponseHeader>)
    buffer,   \* Response::read: local `buffer` (Vec<u8>)
    saw_cr,   \* Response::read: local `saw_cr`
    ret,      \* the value returned by the operation (NoRet while running)
    request,  \* the Request built by Request::new (Option<Request>)
    sink,     \* Request::write: the writer: the bytes it holds and the room left
    writes,   \* the number of Request::write calls that have returned
    wret,     \* the value returned by the last Request::write
    conn,     \* Client::send_request: the TCP connections opened, and where to
    cc,       \* Client::send_request: local `cc`, the rustls ClientConnection
    net,      \* the socket: what the client wrote, what the server has sent back
    closed,   \* Client::send_request: local `closed`
    data,     \* Client::send_request: local `data`
    uri_ref,  \* the Uri made by Uri::new (Option<Uri>)
    uri_owned, \* the UriOwned made from it (Option<UriOwned>)
    lines,    \* Gemtext: field `lines`, the lines the iterator has not read yet
    pre,      \* Gemtext: field `pre` (TokenPreformatted)
    out       \* Gemtext: what the calls of next() have returned, in order

readVars == <<reader, header, buffer, saw_cr>>
requestVars == <<request, sink, writes, wret>>
clientVars == <<conn, cc, net, closed, data>>
uriVars == <<uri_ref, uri_owned>>
gemVars == <<lines, pre, out>>

vars == <<call, pc, ret, readVars, requestVars, clientVars, uriVars, gemVars>>

(***************************************************************************)
(* Option and Result                                                       *)
(***************************************************************************)
None == [some |-> FALSE]
Some(v) == [some |-> TRUE, val |-> v]
Ok(v) == [ok |-> TRUE, val |-> v]
Err(e) == [ok |-> FALSE, err |-> e]
NoRet == [running |-> TRUE]

(***************************************************************************)
(* Bytes and strings                                                       *)
(***************************************************************************)
CR == 13
LF == 10
SP == 32
CRLF == <<CR, LF>>
\* U+FEFF encoded in UTF-8
BOM == <<239, 187, 191>>

Byte == 0..255

\* the positions at which pat occurs in s
Matches(s, pat) ==
    {i \in 1..(Len(s) - Len(pat) + 1) : \A k \in 1..Len(pat) : s[i + k - 1] = pat[k]}

\* str::find: the first position at which pat occurs in s, 0 when there is none
Find(s, pat) ==
    LET m == Matches(s, pat)
    IN IF m = {} THEN 0 ELSE CHOOSE i \in m : \A j \in m : i <= j

\* str::split_once: the text before and after the first occurrence of pat
split_once(s, pat) ==
    LET i == Find(s, pat)
    IN IF i = 0 THEN None
       ELSE Some(<<SubSeq(s, 1, i - 1), SubSeq(s, i + Len(pat), Len(s))>>)

starts_with(s, pat) ==
    Len(s) >= Len(pat) /\ SubSeq(s, 1, Len(pat)) = pat

IsCont(b) == b \in 128..191

\* the length of the UTF-8 sequence a lead byte announces, 0 for a byte that
\* cannot start one (a continuation byte, C0, C1, F5..FF)
Utf8Width(b) ==
    IF b < 128 THEN 1
    ELSE IF b \in 194..223 THEN 2
    ELSE IF b \in 224..239 THEN 3
    ELSE IF b \in 240..244 THEN 4
    ELSE 0

\* the range allowed for the second byte of the sequence lead byte b starts
\* (no overlong forms, no surrogates, nothing above U+10FFFF)
Utf8Second(b) ==
    IF b = 224 THEN 160..191
    ELSE IF b = 237 THEN 128..159
    ELSE IF b = 240 THEN 144..191
    ELSE IF b = 244 THEN 128..143
    ELSE 128..191

\* one well-formed scalar value starts at position i and the next byte, if
\* any, starts another one
Utf8CharAt(s, i) ==
    LET w == Utf8Width(s[i])
    IN /\ w > 0
       /\ i + w - 1 <= Len(s)
       /\ w >= 2 => s[i + 1] \in Utf8Second(s[i])
       /\ \A k \in 2..(w - 1) : IsCont(s[i + k])
       /\ i + w <= Len(s) => ~IsCont(s[i + w])

\* core::str::from_utf8(s).is_ok()
Utf8Valid(s) ==
    /\ Len(s) > 0 => ~IsCont(s[1])
    /\ \A i \in 1..Len(s) : ~IsCont(s[i]) => Utf8CharAt(s, i)

(***************************************************************************)
(* StackStr<N>: buf holds the len bytes copied in; the N - len bytes       *)
(* after them stay zero and are never read.                                *)
(***************************************************************************)
StackStr_from_str(s, N) ==
    IF Len(s) > N THEN None
    ELSE Some([buf |-> SubSeq(s, 1, Len(s)), len |-> Len(s)])

StackStr_as_str(ss) == SubSeq(ss.buf, 1, ss.len)

(***************************************************************************)
(* status::Status                                                          *)
(***************************************************************************)
StatusOf(cat, sub) == [cat |-> cat, sub |-> sub]

InvalidStatusError(code) == [kind |-> "InvalidStatusError", code |-> code]

\* lines 244-272: the arms of the match, None for `_`
StatusMatch(code) ==
    CASE code = 10 -> Some(StatusOf("Input", "Input"))
      [] code = 11 -> Some(StatusOf("Input", "Sensitive"))
      [] code = 20 -> Some(StatusOf("Success", "Success"))
      [] code = 30 -> Some(StatusOf("Redirect", "Temporary"))
      [] code = 31 -> Some(StatusOf("Redirect", "Permanent"))
      [] code = 40 -> Some(StatusOf("TemporaryFailure", "TemporaryFailure"))
      [] code = 41 -> Some(StatusOf("TemporaryFailure", "ServerUnavailable"))
      [] code = 42 -> Some(StatusOf("TemporaryFailure", "CgiError"))
      [] code = 43 -> Some(StatusOf("TemporaryFailure", "ProxyError"))
      [] code = 44 -> Some(StatusOf("TemporaryFailure", "SlowDown"))
      [] code = 50 -> Some(StatusOf("PermanentFailure", "PermanentFailure"))
      [] code = 51 -> Some(StatusOf("PermanentFailure", "NotFound"))
      [] code = 52 -> Some(StatusOf("PermanentFailure", "Gone"))
      [] code = 53 -> Some(StatusOf("PermanentFailure", "ProxyRequestRefused"))
      [] code = 59 -> Some(StatusOf("PermanentFailure", "BadRequest"))
      [] code = 60 -> Some(StatusOf("ClientCertificateRequired", "ClientCertificateRequired"))
      [] code = 61 -> Some(StatusOf("ClientCertificateRequired", "CertificateNotAuthorized"))
      [] code = 62 -> Some(StatusOf("ClientCertificateRequired", "CertificateNotValid"))
      [] OTHER -> None

\* a mutant: the category is read off the tens digit, so 21..29 are Success
Status_try_from_by_tens(code) ==
    IF code \in 20..29 THEN Ok(StatusOf("Success", "Success"))
    ELSE IF StatusMatch(code).some THEN Ok(StatusMatch(code).val)
    ELSE Err(InvalidStatusError(code))

Status_try_from(code) ==
    IF StatusMatch(code).some THEN Ok(StatusMatch(code).val)
    ELSE Err(InvalidStatusError(code))

(***************************************************************************)
(* str::parse::<u8> and str::parse::<u16>: an optional '+', then one or    *)
(* more ASCII digits whose value fits the type.                            *)
(***************************************************************************)
IsDigit(b) == b \in 48..57

RECURSIVE DigitsValue(_, _, _)
\* the checked accumulation of the digits: -1 on a non-digit or on overflow
DigitsValue(ds, acc, max) ==
    IF ds = <<>> THEN acc
    ELSE IF ~IsDigit(ds[1]) THEN -1
    ELSE LET v == acc * 10 + (ds[1] - 48)
         IN IF v > max THEN -1 ELSE DigitsValue(Tail(ds), v, max)

parse_uint(tok, max) ==
    IF tok = <<>> THEN None
    ELSE IF Len(tok) = 1 /\ tok[1] \in {43, 45} THEN None
    ELSE LET digits == IF tok[1] = 43 THEN Tail(tok) ELSE tok
             v == DigitsValue(digits, 0, max)
         IN IF v < 0 THEN None ELSE Some(v)

parse_u8(tok) == parse_uint(tok, 255)

parse_u16(tok) == parse_uint(tok, 65535)

(***************************************************************************)
(* ResponseHeader                                                          *)
(***************************************************************************)
MetaCap == 1024

Malformed(msg) == [kind |-> "Malformed", msg |-> msg]
StatusError(e) == [kind |-> "Status", source |-> e]

ResponseHeader_new(status, meta) ==
    LET m == StackStr_from_str(meta, MetaCap)
    IN IF m.some THEN Ok([status |-> status, meta |-> m.val])
       ELSE Err("meta can be no longer than 1024 bytes")

ResponseHeader_meta(h) == StackStr_as_str(h.meta)

\* line 150, the bound on META (a mutant: the bound taken one too low)
MetaTooLong_off_by_one(meta) == Len(meta) >= 1024

MetaTooLong(meta) == Len(meta) > 1024

\* lines 140-165: the header line, already cut at the first CR LF
ParseLine(line) ==
    LET sp == split_once(line, <<SP>>)
    IN IF ~sp.some THEN Err(Malformed("missing space (0x20) separator"))
       ELSE LET n == parse_u8(sp.val[1])
                meta == sp.val[2]
            IN IF ~n.some THEN Err(Malformed("invalid status code"))
               ELSE LET st == Status_try_from(n.val)
                    IN IF ~st.ok THEN Err(StatusError(st.err))
                       ELSE IF MetaTooLong(meta)
                            THEN Err(Malformed("META is be longer than 1024 bytes"))
                       ELSE IF starts_with(meta, BOM)
                            THEN Err(Malformed("META starts with U+FEFF"))
                       ELSE Ok([status |-> st.val,
                                meta |-> StackStr_from_str(meta, MetaCap).val])

ResponseHeader_parse(src) ==
    IF ~Utf8Valid(src) THEN Err(Malformed("is not valid UTF-8"))
    ELSE IF starts_with(src, BOM) THEN Err(Malformed("header starts with U+FEFF"))
    ELSE LET cut == split_once(src, CRLF)
         IN IF ~cut.some THEN Err(Malformed("does not end with a CR/LF"))
            ELSE ParseLine(cut.val[1])

(***************************************************************************)
(* uri::Uri                                                                *)
(***************************************************************************)
\* str::rsplit_once: the text before and after the last occurrence of pat
rsplit_once(s, pat) ==
    LET m == Matches(s, pat)
    IN IF m = {} THEN None
       ELSE LET i == CHOOSE i \in m : \A j \in m : j <= i
            IN Some(<<SubSeq(s, 1, i - 1), SubSeq(s, i + Len(pat), Len(s))>>)

\* the scalar value whose UTF-8 sequence starts at position i of a str
CodePointAt(s, i) ==
    LET w == Utf8Width(s[i])
    IN IF w = 1 THEN s[i]
       ELSE IF w = 2 THEN (s[i] - 192) * 64 + (s[i + 1] - 128)
       ELSE IF w = 3 THEN (s[i] - 224) * 4096 + (s[i + 1] - 128) * 64 + (s[i + 2] - 128)
       ELSE (s[i] - 240) * 262144 + (s[i + 1] - 128) * 4096
            + (s[i + 2] - 128) * 64 + (s[i + 3] - 128)

\* char::is_alphabetic, for the scalar values up to U+02C1 and for U+FEFF
is_alphabetic(c) ==
    \/ c \in 65..90
    \/ c \in 97..122
    \/ c \in {170, 181, 186}
    \/ c \in 192..214
    \/ c \in 216..246
    \/ c \in 248..705

is_ascii_digit(c) == c \in 48..57

\* line 587-589; '+' '-' '.'
is_scheme(c) == is_alphabetic(c) \/ is_ascii_digit(c) \/ c \in {43, 45, 46}

\* the positions of s at which a char starts: s.char_indices()
char_indices(s) == {i \in 1..Len(s) : ~IsCont(s[i])}

\* line 468: scheme.chars().all(is_scheme)
all_is_scheme(s) == \A i \in char_indices(s) : is_scheme(CodePointAt(s, i))

\* a parser that takes whatever follows the last ':' as the port
all_ascii_digit_or_not(s) == TRUE

\* line 483: port.chars().all(|x| x.is_ascii_digit())
all_ascii_digit(s) == \A i \in char_indices(s) : is_ascii_digit(CodePointAt(s, i))

\* s.starts_with(char::is_alphabetic)
starts_alphabetic(s) == s # <<>> /\ is_alphabetic(CodePointAt(s, 1))

\* s.strip_prefix(pat)
strip_prefix(s, pat) ==
    IF starts_with(s, pat) THEN Some(SubSeq(s, Len(pat) + 1, Len(s))) ELSE None

\* Uri::new that splits at the last '#'
CutFragment_last(src) ==
    LET f == rsplit_once(src, <<35>>)
    IN IF f.some THEN [src |-> f.val[1], fragment |-> Some(f.val[2])]
       ELSE [src |-> src, fragment |-> None]

\* lines 457-460: src and uri.fragment after the split at '#'
CutFragment(src) ==
    LET f == split_once(src, <<35>>)
    IN IF f.some THEN [src |-> f.val[1], fragment |-> Some(f.val[2])]
       ELSE [src |-> src, fragment |-> None]

\* lines 461-464: src and uri.query after the split at '?'
CutQuery(src) ==
    LET q == split_once(src, <<63>>)
    IN IF q.some THEN [src |-> q.val[1], query |-> Some(q.val[2])]
       ELSE [src |-> src, query |-> None]

\* lines 466-473: src and uri.scheme after the split at ':'
CutScheme(src) ==
    LET sc == split_once(src, <<58>>)
    IN IF starts_alphabetic(src) /\ sc.some /\ all_is_scheme(sc.val[1])
       THEN [src |-> sc.val[2], scheme |-> Some(sc.val[1])]
       ELSE [src |-> src, scheme |-> None]

\* lines 475-493: what follows "//": path, port, userinfo and host
Authority(rest) ==
    LET p == split_once(rest, <<47>>)
        path == IF p.some THEN Some(p.val[2]) ELSE None
        src1 == IF p.some THEN p.val[1] ELSE rest
        c == rsplit_once(src1, <<58>>)
        hasPort == c.some /\ all_ascii_digit(c.val[2])
        port == IF hasPort THEN Some(c.val[2]) ELSE None
        src2 == IF hasPort THEN c.val[1] ELSE src1
        u == split_once(src2, <<64>>)
    IN [path |-> path, port |-> port,
        userinfo |-> IF u.some THEN Some(u.val[1]) ELSE None,
        host |-> IF u.some THEN Some(u.val[2]) ELSE Some(src2)]

\* lines 446-499
Uri_new(src) ==
    LET f == CutFragment(src)
        q == CutQuery(f.src)
        sc == CutScheme(q.src)
        a == strip_prefix(sc.src, <<47, 47>>)
    IN IF a.some
       THEN LET au == Authority(a.val)
            IN Ok([scheme |-> sc.scheme, userinfo |-> au.userinfo, host |-> au.host,
                   port |-> au.port, path |-> au.path,
                   query |-> q.query, fragment |-> f.fragment])
       ELSE Ok([scheme |-> sc.scheme, userinfo |-> None, host |-> None,
                port |-> None, path |-> Some(sc.src),
                query |-> q.query, fragment |-> f.fragment])

\* str::trim_start_matches(c): s without its leading run of the byte c
trim_start_matches(s, c) ==
    LET stop == {i \in 1..Len(s) : s[i] # c}
    IN IF stop = {} THEN <<>>
       ELSE SubSeq(s, CHOOSE i \in stop : \A j \in stop : i <= j, Len(s))

\* Option::map(String::from) and Option::as_deref: the text is copied
Option_map_String_from(o) == IF o.some THEN Some([i \in 1..Len(o.val) |-> o.val[i]]) ELSE None

\* lines 566-578, UriOwned::from(Uri)
UriOwned_from(u) ==
    [scheme |-> Option_map_String_from(u.scheme),
     userinfo |-> Option_map_String_from(u.userinfo),
     host |-> Option_map_String_from(u.host),
     port |-> Option_map_String_from(u.port),
     path |-> Option_map_String_from(u.path),
     query |-> Option_map_String_from(u.query),
     fragment |-> Option_map_String_from(u.fragment)]

\* lines 502-514, Uri::from(&UriOwned)
Uri_from(o) ==
    [scheme |-> o.scheme, userinfo |-> o.userinfo, host |-> o.host, port |-> o.port,
     path |-> o.path, query |-> o.query, fragment |-> o.fragment]

\* to_string that keeps the path as it is
PushPath_keep(path) == <<47>> \o path

\* lines 537-540: s.push('/'); s.push_str(path.trim_start_matches('/'))
PushPath(path) == <<47>> \o trim_start_matches(path, 47)

\* lines 516-554, Uri::to_string
Uri_to_string(u) ==
    (IF u.scheme.some THEN u.scheme.val \o <<58>> ELSE <<>>)
    \o (IF u.host.some
        THEN <<47, 47>>
             \o (IF u.userinfo.some THEN u.userinfo.val \o <<64>> ELSE <<>>)
             \o u.host.val
             \o (IF u.port.some THEN <<58>> \o u.port.val ELSE <<>>)
             \o (IF u.path.some THEN PushPath(u.path.val) ELSE <<>>)
        ELSE IF u.path.some THEN u.path.val ELSE <<>>)
    \o (IF u.query.some THEN <<63>> \o u.query.val ELSE <<>>)
    \o (IF u.fragment.some THEN <<35>> \o u.fragment.val ELSE <<>>)

\* lines 580-585, UriOwned::to_string
UriOwned_to_string(o) == Uri_to_string(Uri_from(o))

(***************************************************************************)
(* Request                                                                 *)
(***************************************************************************)
UriCap == 1024

UrlTooLong == [kind |-> "UrlTooLong"]
InvalidUrl == [kind |-> "InvalidUrl"]
RequestIo == [kind |-> "Io"]

\* line 80 (a mutant: the bound taken one too low)
TooLong_off_by_one(uri) == Len(uri) >= 1024

TooLong(uri) == Len(uri) > 1024

\* lines 78-91
Request_new(uri) ==
    IF TooLong(uri) THEN Err(UrlTooLong)
    ELSE LET view == Uri_new(uri)
         IN IF ~view.ok THEN Err(UrlTooLong)
            ELSE IF starts_with(uri, BOM) \/ ~view.val.host.some \/ view.val.userinfo.some
                 THEN Err(InvalidUrl)
            ELSE Ok([uri |-> StackStr_from_str(uri, UriCap).val])

\* lines 92-94
Request_url(r) == Uri_new(StackStr_as_str(r.uri)).val

\* lines 95-97
Request_url_as_str(r) == StackStr_as_str(r.uri)

\* io::Write::write_all on a writer with `room` bytes left (-1: no limit, a
\* Vec): all of bytes, or what fits and an error
write_all(w, bytes) ==
    IF w.room < 0 THEN [sink |-> [w EXCEPT !.data = @ \o bytes], ok |-> TRUE]
    ELSE IF Len(bytes) <= w.room
         THEN [sink |-> [data |-> w.data \o bytes, room |-> w.room - Len(bytes)],
               ok |-> TRUE]
    ELSE [sink |-> [data |-> w.data \o SubSeq(bytes, 1, w.room), room |-> 0],
          ok |-> FALSE]

\* line 103 (a mutant: the line is ended by LF alone)
RequestEnd_lf == <<LF>>

RequestEnd == <<CR, LF>>

(***************************************************************************)
(* Response::read, one iteration of `for byte in reader.bytes()` a step    *)
(***************************************************************************)
HeaderParse(e) == [kind |-> "HeaderParse", source |-> e]
Io == [kind |-> "Io"]
MissingHeader == [kind |-> "MissingHeader"]

Idle == [pos |-> 0, state |-> "none"]

\* line 203 (a mutant: the LF alone ends the header)
HeaderEnds_lf_only(saw, byte) == byte = LF

HeaderEnds(saw, byte) == saw /\ byte = LF

\* lines 211-216 (a mutant: an empty body is taken for a missing header)
ReadResult_empty_body(h, body) ==
    IF h.some /\ body # <<>> THEN Ok([header |-> h.val, body |-> body])
    ELSE Err(MissingHeader)

ReadResult(h, body) ==
    IF h.some THEN Ok([header |-> h.val, body |-> body])
    ELSE Err(MissingHeader)

\* lines 194-196
Response_read_enter ==
    /\ pc = "call" /\ call.fn = "Response::read"
    /\ reader' = [pos |-> 0, state |-> "open"]
    /\ header' = None
    /\ buffer' = <<>>
    /\ saw_cr' = FALSE
    /\ pc' = "read_loop"
    /\ UNCHANGED <<call, uriVars, gemVars, ret, requestVars, clientVars>>

\* lines 198-210, the reader yields one more byte
Response_read_byte ==
    /\ pc = "read_loop" /\ reader.pos < Len(call.arg)
    /\ LET byte == call.arg[reader.pos + 1]
           pushed == Append(buffer, byte)
       IN /\ reader' = [reader EXCEPT !.pos = @ + 1]
          /\ IF ~header.some
             THEN IF HeaderEnds(saw_cr, byte)
                  THEN LET h == ResponseHeader_parse(pushed)
                       IN IF h.ok
                          THEN /\ header' = Some(h.val)
                               /\ buffer' = <<>>
                               /\ saw_cr' = (byte = CR)
                               /\ UNCHANGED <<pc, ret>>
                          ELSE /\ ret' = Err(HeaderParse(h.err))
                               /\ pc' = "done"
                               /\ buffer' = pushed
                               /\ UNCHANGED <<header, saw_cr>>
                  ELSE /\ buffer' = pushed
                       /\ saw_cr' = (byte = CR)
                       /\ UNCHANGED <<header, pc, ret>>
             ELSE /\ buffer' = pushed
                  /\ UNCHANGED <<header, saw_cr, pc, ret>>
    /\ UNCHANGED <<call, uriVars, gemVars, requestVars, clientVars>>

\* line 199, the reader yields an error: `byte?` returns it
Response_read_io_error ==
    /\ pc = "read_loop"
    /\ reader' = [reader EXCEPT !.state = "err"]
    /\ ret' = Err(Io)
    /\ pc' = "done"
    /\ UNCHANGED <<call, uriVars, gemVars, header, buffer, saw_cr, requestVars, clientVars>>

\* lines 211-216, the reader is exhausted
Response_read_eof ==
    /\ pc = "read_loop" /\ reader.pos = Len(call.arg)
    /\ reader' = [reader EXCEPT !.state = "eof"]
    /\ ret' = ReadResult(header, buffer)
    /\ pc' = "done"
    /\ UNCHANGED <<call, uriVars, gemVars, header, buffer, saw_cr, requestVars, clientVars>>

\* ResponseHeader::parse called on its own
ResponseHeader_parse_call ==
    /\ pc = "call" /\ call.fn = "ResponseHeader::parse"
    /\ ret' = ResponseHeader_parse(call.arg)
    /\ pc' = "done"
    /\ UNCHANGED <<call, uriVars, gemVars, readVars, requestVars, clientVars>>

\* ResponseHeader::new called on its own
ResponseHeader_new_call ==
    /\ pc = "call" /\ call.fn = "ResponseHeader::new"
    /\ ret' = ResponseHeader_new(call.arg[1], call.arg[2])
    /\ pc' = "done"
    /\ UNCHANGED <<call, uriVars, gemVars, readVars, requestVars, clientVars>>

(***************************************************************************)
(* The inputs                                                              *)
(***************************************************************************)
MaxRest == 3

Seqs(alphabet, n) == UNION {[1..k -> alphabet] : k \in 0..n}

Fill(n) == [i \in 1..n |-> 97]

\* "20" "31" "2" "69" "+20" "020" "256" "" "x" U+FEFF"20"
Tokens ==
    {<<50, 48>>, <<51, 49>>, <<50>>, <<54, 57>>, <<43, 50, 48>>, <<48, 50, 48>>,
     <<50, 53, 54>>, <<>>, <<120>>, BOM \o <<50, 48>>}

Seps == {<<>>, <<SP>>}

\* "" "a" "a b" U+FEFF"a" "e-acute" "a" CR LF
Metas ==
    {<<>>, <<97>>, <<97, SP, 98>>, BOM \o <<97>>, <<195, 169>>, <<97, CR, LF>>}

\* what follows: CR, LF, 'b' and a byte that is never part of UTF-8
Rests == Seqs({CR, LF, 98, 255}, MaxRest)

\* metas around the capacity, in bytes and in characters
LongMetas ==
    {Fill(MetaCap - 1), Fill(MetaCap), Fill(MetaCap + 1),
     Fill(MetaCap - 2) \o <<195, 169>>, Fill(MetaCap - 1) \o <<195, 169>>}

ShortInputs ==
    {t \o s \o m \o r : t \in Tokens, s \in Seps, m \in Metas, r \in Rests}

LongInputs ==
    {<<50, 48, SP>> \o m \o r : m \in LongMetas, r \in {<<>>, CRLF, CRLF \o <<98>>}}

ParseInputs == ShortInputs \cup LongInputs

ReadInputs ==
    {t \o s \o m \o r : t \in {<<50, 48>>, <<54, 57>>, <<>>}, s \in Seps,
                          m \in {<<>>, <<97, CR, LF>>}, r \in Rests}
    \cup {<<50, 48, SP>> \o m \o CRLF \o <<98>> : m \in {Fill(MetaCap), Fill(MetaCap + 1)}}

NewInputs ==
    {<<st, m>> : st \in {StatusOf("Success", "Success"), StatusOf("Input", "Sensitive")},
                m \in Metas \cup LongMetas}

ResponseCalls ==
    {[fn |-> "ResponseHeader::parse", arg |-> a] : a \in ParseInputs}
    \cup {[fn |-> "ResponseHeader::new", arg |-> a] : a \in NewInputs}
    \cup {[fn |-> "Response::read", arg |-> a] : a \in ReadInputs}

\* no Response::read is running
NoRead == reader = Idle /\ header = None /\ buffer = <<>> /\ saw_cr = FALSE

\* no Request exists
NoRequest ==
    request = None /\ sink = [data |-> <<>>, room |-> 0] /\ writes = 0 /\ wret = NoRet

\* no Uri has been made
NoUri == uri_ref = None /\ uri_owned = None

\* line 361, TokenPreformatted::default()
TokenPreformatted_default == [preformatted |-> FALSE, alt_text |-> None]

\* no Gemtext has been made
NoGemtext == lines = <<>> /\ pre = TokenPreformatted_default /\ out = <<>>

\* no Client::send_request is running
NoSession == [up |-> FALSE]
NoClient ==
    /\ conn = [connects |-> 0, host |-> <<>>, port |-> 0, peer |-> None]
    /\ cc = NoSession
    /\ net = [sent |-> <<>>, inbound |-> <<>>, srv |-> [st |-> "wait_hello", got |-> <<>>]]
    /\ closed = FALSE
    /\ data = <<>>

InitResponse ==
    /\ call \in ResponseCalls
    /\ pc = "call"
    /\ ret = NoRet
    /\ NoRead
    /\ NoRequest
    /\ NoClient
    /\ NoUri
    /\ NoGemtext

NextResponse ==
    \/ ResponseHeader_parse_call
    \/ ResponseHeader_new_call
    \/ Response_read_enter
    \/ Response_read_byte
    \/ Response_read_io_error
    \/ Response_read_eof

SpecResponse == InitResponse /\ [][NextResponse]_vars

(***************************************************************************)
(* The claims about the response framer and the header parser              *)
(***************************************************************************)
Returned(fn) == call.fn = fn /\ pc = "done"

\* the input up to and including its first CR LF (k is where the CR is)
Prefix(s, k) == SubSeq(s, 1, k + 1)
\* the input after its first CR LF
After(s, k) == SubSeq(s, k + 2, Len(s))

\* C1: when the stream contains a CR LF and the prefix up to and including
\* the first one parses, Response::read (of a reader that does not fail)
\* succeeds with the header that prefix parses to and the body equal to the
\* bytes after that CR LF, unmodified.
Thm_C1 ==
    (Returned("Response::read") /\ reader.state # "err") =>
        LET k == Find(call.arg, CRLF)
        IN (k > 0 /\ ResponseHeader_parse(Prefix(call.arg, k)).ok) =>
              ret = Ok([header |-> ResponseHeader_parse(Prefix(call.arg, k)).val,
                        body |-> After(call.arg, k)])

\* a read that succeeded with a body holding a byte that is no UTF-8 and a
\* further CR LF
Wit_C1 ==
    /\ Returned("Response::read") /\ ret.ok
    /\ ret.val.body = <<255, CR, LF>>
    /\ ResponseHeader_meta(ret.val.header) = <<97>>

\* a read that succeeded with an empty body
Wit_C1_empty == Returned("Response::read") /\ ret.ok /\ ret.val.body = <<>>

\* C2: Response::read returns MissingHeader exactly when the stream ends
\* without ever holding a CR immediately followed by LF.
Thm_C2 ==
    Returned("Response::read") =>
        (ret = Err(MissingHeader)
            <=> (reader.state = "eof" /\ Find(call.arg, CRLF) = 0))

\* MissingHeader returned for a stream that ends in a lone CR
Wit_C2 ==
    /\ Returned("Response::read") /\ ret = Err(MissingHeader)
    /\ call.arg = <<50, 48, SP, CR>>

\* MissingHeader returned for the empty stream
Wit_C2_empty ==
    Returned("Response::read") /\ ret = Err(MissingHeader) /\ call.arg = <<>>

\* C3: ResponseHeader::parse gives for h CR LF t the result it gives for
\* h CR LF, whatever the bytes t are.
Claim_C3 ==
    Returned("ResponseHeader::parse") =>
        LET k == Find(call.arg, CRLF)
        IN k > 0 => ret = ResponseHeader_parse(Prefix(call.arg, k))

\* what does hold: the tail is ignored when it is well-formed UTF-8
Lemma_C3_utf8_tail ==
    Returned("ResponseHeader::parse") =>
        LET k == Find(call.arg, CRLF)
        IN (k > 0 /\ Utf8Valid(After(call.arg, k))) =>
              ret = ResponseHeader_parse(Prefix(call.arg, k))

\* the header line of the input: the text before its first CR LF
Line(s) == SubSeq(s, 1, Find(s, CRLF) - 1)
\* the status token and the meta of a header line that holds a space
Token(line) == SubSeq(line, 1, Find(line, <<SP>>) - 1)
Meta(line) == SubSeq(line, Find(line, <<SP>>) + 1, Len(line))

ValidCodes == {10, 11, 20, 30, 31, 40, 41, 42, 43, 44, 50, 51, 52, 53, 59, 60, 61, 62}

\* one or two ASCII digits, and their value
OneOrTwoDigits(tok) == Len(tok) \in {1, 2} /\ \A i \in 1..Len(tok) : tok[i] \in 48..57
DecValue(tok) == IF Len(tok) = 1 THEN tok[1] - 48 ELSE (tok[1] - 48) * 10 + (tok[2] - 48)

\* the input reaches the split of its header line: it is text, does not start
\* with U+FEFF and holds a CR LF
ReachesLine(s) == Utf8Valid(s) /\ ~starts_with(s, BOM) /\ Find(s, CRLF) > 0

\* C4: ResponseHeader::parse accepts only the wire form (a status token of
\* one or two ASCII digits naming a valid code, a space, the meta); a line
\* without a space and a token that is not one or two digits are Malformed, a
\* numeric token that names no valid code is the wrapped InvalidStatusError.
Claim_C4 ==
    Returned("ResponseHeader::parse") =>
        LET line == Line(call.arg)
        IN /\ ret.ok => /\ Find(call.arg, CRLF) > 0
                        /\ Find(line, <<SP>>) > 0
                        /\ OneOrTwoDigits(Token(line))
                        /\ DecValue(Token(line)) \in ValidCodes
           /\ (ReachesLine(call.arg) /\ Find(line, <<SP>>) = 0) =>
                 (~ret.ok /\ ret.err.kind = "Malformed")
           /\ (ReachesLine(call.arg) /\ Find(line, <<SP>>) > 0) =>
                 IF ~OneOrTwoDigits(Token(line))
                 THEN ~ret.ok /\ ret.err.kind = "Malformed"
                 ELSE DecValue(Token(line)) \notin ValidCodes =>
                         ret = Err(StatusError(InvalidStatusError(DecValue(Token(line)))))

\* what does hold of an accepted line: its token is an optional '+' and one
\* or more ASCII digits, leading zeros included, whose value is a valid code
Lemma_C4_accepted ==
    Returned("ResponseHeader::parse") =>
        LET line == Line(call.arg)
            tok == Token(line)
            digits == IF tok # <<>> /\ tok[1] = 43 THEN Tail(tok) ELSE tok
        IN /\ ret.ok => /\ Find(call.arg, CRLF) > 0
                        /\ Find(line, <<SP>>) > 0
                        /\ digits # <<>>
                        /\ \A i \in 1..Len(digits) : digits[i] \in 48..57
                        /\ \E n \in 1..Len(digits) :
                              /\ \A i \in 1..(n - 1) : digits[i] = 48
                              /\ OneOrTwoDigits(SubSeq(digits, n, Len(digits)))
                              /\ DecValue(SubSeq(digits, n, Len(digits))) \in ValidCodes
           /\ (ReachesLine(call.arg) /\ Find(line, <<SP>>) = 0) =>
                 (~ret.ok /\ ret.err.kind = "Malformed")
           /\ (ReachesLine(call.arg) /\ Find(line, <<SP>>) > 0
                 /\ OneOrTwoDigits(tok) /\ DecValue(tok) \notin ValidCodes) =>
                 ret = Err(StatusError(InvalidStatusError(DecValue(tok))))

\* the input is a header line whose status token is two digits naming a valid
\* code, so that the meta decides
MetaDecides(s) ==
    /\ ReachesLine(s)
    /\ Find(Line(s), <<SP>>) > 0
    /\ OneOrTwoDigits(Token(Line(s)))
    /\ DecValue(Token(Line(s))) \in ValidCodes

\* C5 as stated: every header has a meta of at most 1024 bytes; parse is
\* Malformed when the meta is longer, succeeds when it is 1024 bytes or
\* shorter, and meta() then returns it verbatim.
Claim_C5 ==
    /\ (Returned("ResponseHeader::parse") /\ MetaDecides(call.arg)) =>
          LET meta == Meta(Line(call.arg))
          IN IF Len(meta) > 1024
             THEN ~ret.ok /\ ret.err.kind = "Malformed"
             ELSE ret.ok /\ ResponseHeader_meta(ret.val) = meta
    /\ ((Returned("ResponseHeader::parse") \/ Returned("ResponseHeader::new")) /\ ret.ok) =>
          Len(ResponseHeader_meta(ret.val)) <= 1024

\* C5 as amended: ... succeeds when the meta is 1024 bytes or shorter and does
\* not start with U+FEFF (such a meta is Malformed whatever its length), and
\* meta() then returns it verbatim; ResponseHeader::new succeeds exactly when
\* its meta is at most 1024 bytes and keeps it verbatim.
Thm_C5 ==
    /\ (Returned("ResponseHeader::parse") /\ MetaDecides(call.arg)) =>
          LET meta == Meta(Line(call.arg))
          IN IF Len(meta) > 1024 \/ starts_with(meta, BOM)
             THEN ~ret.ok /\ ret.err.kind = "Malformed"
             ELSE ret.ok /\ ResponseHeader_meta(ret.val) = meta
    /\ (Returned("ResponseHeader::parse") /\ ret.ok) =>
          /\ Len(ResponseHeader_meta(ret.val)) <= 1024
          /\ ResponseHeader_meta(ret.val) = Meta(Line(call.arg))
    /\ Returned("ResponseHeader::new") =>
          /\ ret.ok <=> Len(call.arg[2]) <= 1024
          /\ ret.ok => ResponseHeader_meta(ret.val) = call.arg[2]

\* parse accepted a meta of exactly 1024 bytes
Wit_C5 ==
    /\ Returned("ResponseHeader::parse") /\ ret.ok
    /\ Len(ResponseHeader_meta(ret.val)) = 1024

\* parse refused a meta of 1025 bytes as Malformed
Wit_C5_long ==
    /\ Returned("ResponseHeader::parse") /\ MetaDecides(call.arg)
    /\ Len(Meta(Line(call.arg))) = 1025
    /\ ~ret.ok

(***************************************************************************)
(* Status::try_from called on every u8                                     *)
(***************************************************************************)
Status_try_from_call ==
    /\ pc = "call" /\ call.fn = "Status::try_from"
    /\ ret' = Status_try_from(call.arg)
    /\ pc' = "done"
    /\ UNCHANGED <<call, uriVars, gemVars, readVars, requestVars, clientVars>>

InitStatus ==
    /\ call \in {[fn |-> "Status::try_from", arg |-> c] : c \in Byte}
    /\ pc = "call"
    /\ ret = NoRet
    /\ NoRead
    /\ NoRequest
    /\ NoClient
    /\ NoUri
    /\ NoGemtext

NextStatus == Status_try_from_call

SpecStatus == InitStatus /\ [][NextStatus]_vars

\* the category the tens digit stands for
TensCategory(d) ==
    CASE d = 1 -> "Input"
      [] d = 2 -> "Success"
      [] d = 3 -> "Redirect"
      [] d = 4 -> "TemporaryFailure"
      [] d = 5 -> "PermanentFailure"
      [] d = 6 -> "ClientCertificateRequired"
      [] OTHER -> "none"

\* C6: Status::try_from is total over 0..255: Ok for exactly the 18 valid
\* codes, InvalidStatusError(code) for every other value; the category of an
\* accepted code is fixed by its tens digit and distinct codes give distinct
\* Status values.
Thm_C6 ==
    Returned("Status::try_from") =>
        /\ ret.ok <=> call.arg \in ValidCodes
        /\ ~ret.ok => ret = Err(InvalidStatusError(call.arg))
        /\ ret.ok => /\ ret.val.cat = TensCategory(call.arg \div 10)
                     /\ \A c \in Byte \ {call.arg} : Status_try_from(c) # ret

\* 59 is accepted as a permanent failure, the last of the 18 codes reached
Wit_C6 ==
    /\ Returned("Status::try_from") /\ call.arg = 59
    /\ ret = Ok(StatusOf("PermanentFailure", "BadRequest"))
    /\ Cardinality(ValidCodes) = 18

\* 21 is refused with its code
Wit_C6_invalid ==
    Returned("Status::try_from") /\ call.arg = 21 /\ ret = Err(InvalidStatusError(21))

(***************************************************************************)
(* Request::new, then Request::write on the Request it built               *)
(***************************************************************************)
MaxPath == 2
MaxWrites == 2

\* "" "g:" "e-acute:" "1:"
UriSchemes == {<<>>, <<103, 58>>, <<195, 169, 58>>, <<49, 58>>}

\* "" "//" "//h" "//u@h" "//h:1" "//h:" "//h:x" "//u@h:1" "//@" "//h:99999"
UriAuthorities ==
    {<<>>, <<47, 47>>, <<47, 47, 104>>, <<47, 47, 117, 64, 104>>,
     <<47, 47, 104, 58, 49>>, <<47, 47, 104, 58>>, <<47, 47, 104, 58, 120>>,
     <<47, 47, 117, 64, 104, 58, 49>>, <<47, 47, 64>>,
     <<47, 47, 104, 58, 57, 57, 57, 57, 57>>}

\* paths over '/' and 'p'
UriPaths == Seqs({47, 112}, MaxPath)

\* "" "?q" "#f" "?q#f" "#f?q"
UriSuffixes == {<<>>, <<63, 113>>, <<35, 102>>, <<63, 113, 35, 102>>, <<35, 102, 63, 113>>}

\* "g://h/" and "g://u@h/" filled to the capacity, in bytes and in characters
LongUris ==
    {<<103, 58, 47, 47, 104, 47>> \o t :
        t \in {Fill(UriCap - 7), Fill(UriCap - 6), Fill(UriCap - 5),
               Fill(UriCap - 8) \o <<195, 169>>, Fill(UriCap - 7) \o <<195, 169>>}}
    \cup {<<103, 58, 47, 47, 117, 64, 104, 47>> \o Fill(UriCap - 7), Fill(UriCap + 1)}

\* "g://h/" followed by "\r\n", "\r\nx", "p\n" and "\r", and "//h\n"
LineBreakTexts ==
    {<<103, 58, 47, 47, 104, 47>> \o t :
        t \in {<<CR, LF>>, <<CR, LF, 120>>, <<112, LF>>, <<CR>>}}
    \cup {<<47, 47, 104, LF>>}

RequestTexts ==
    {l \o sc \o a \o p \o x :
        l \in {<<>>, BOM}, sc \in UriSchemes, a \in UriAuthorities,
        p \in UriPaths, x \in UriSuffixes}
    \cup LongUris
    \cup LineBreakTexts

\* a Vec (-1), a full writer and two writers that fill up
SinkRooms == {-1, 0, 5, 6}

Request_new_call ==
    /\ pc = "call" /\ call.fn = "Request::new"
    /\ ret' = Request_new(call.arg)
    /\ request' = IF ret'.ok THEN Some(ret'.val) ELSE None
    /\ pc' = IF ret'.ok THEN "built" ELSE "done"
    /\ UNCHANGED <<call, uriVars, gemVars, readVars, sink, writes, wret, clientVars>>

\* line 102: writer.write_all(self.uri.as_bytes())?
Request_write_uri ==
    /\ pc = "built" /\ writes < MaxWrites
    /\ LET w == write_all(sink, StackStr_as_str(request.val.uri))
       IN /\ sink' = w.sink
          /\ IF w.ok THEN pc' = "write_crlf" /\ UNCHANGED <<writes, wret>>
             ELSE pc' = "built" /\ writes' = writes + 1 /\ wret' = Err(RequestIo)
    /\ UNCHANGED <<call, uriVars, gemVars, readVars, ret, request, clientVars>>

\* lines 103-104: writer.write_all(b"\r\n")?; Ok(())
Request_write_crlf ==
    /\ pc = "write_crlf"
    /\ LET w == write_all(sink, RequestEnd)
       IN /\ sink' = w.sink
          /\ wret' = IF w.ok THEN Ok(<<>>) ELSE Err(RequestIo)
    /\ writes' = writes + 1
    /\ pc' = "built"
    /\ UNCHANGED <<call, uriVars, gemVars, readVars, ret, request, clientVars>>

InitRequest ==
    /\ call \in {[fn |-> "Request::new", arg |-> t] : t \in RequestTexts}
    /\ pc = "call"
    /\ ret = NoRet
    /\ NoRead
    /\ request = None
    /\ sink \in {[data |-> <<>>, room |-> r] : r \in SinkRooms}
    /\ writes = 0
    /\ wret = NoRet
    /\ NoClient
    /\ NoUri
    /\ NoGemtext

NextRequest ==
    \/ Request_new_call
    \/ Request_write_uri
    \/ Request_write_crlf

SpecRequest == InitRequest /\ [][NextRequest]_vars

\* Request::new has returned
NewReturned == call.fn = "Request::new" /\ pc # "call"

\* C7: Request::new returns UrlTooLong exactly when the text is longer than
\* 1024 bytes; otherwise InvalidUrl exactly when the text starts with U+FEFF,
\* or its Uri has no host, or it has a userinfo; otherwise it succeeds.  Every
\* Request holds at most 1024 bytes that parse to a Uri with a host and
\* without userinfo.
Thm_C7 ==
    NewReturned =>
        LET t == call.arg
            noHost == ~Uri_new(t).val.host.some
            hasUser == Uri_new(t).val.userinfo.some
        IN /\ ret = Err(UrlTooLong) <=> Len(t) > 1024
           /\ Len(t) <= 1024 =>
                 (ret = Err(InvalidUrl) <=> (starts_with(t, BOM) \/ noHost \/ hasUser))
           /\ ret.ok <=> (Len(t) <= 1024 /\ ~starts_with(t, BOM) /\ ~noHost /\ ~hasUser)
           /\ request.some <=> ret.ok
           /\ request.some =>
                 /\ Len(Request_url_as_str(request.val)) <= 1024
                 /\ Request_url(request.val).host.some
                 /\ ~Request_url(request.val).userinfo.some

\* a text of exactly 1024 bytes was accepted
Wit_C7 == NewReturned /\ ret.ok /\ Len(call.arg) = 1024

\* a text of 1025 bytes that also has a userinfo was refused as too long
Wit_C7_long ==
    /\ NewReturned /\ ret = Err(UrlTooLong)
    /\ Len(call.arg) = 1025 /\ Uri_new(call.arg).val.userinfo.some

\* a text with a userinfo was refused as invalid
Wit_C7_user ==
    NewReturned /\ ret = Err(InvalidUrl) /\ call.arg = <<47, 47, 117, 64, 104>>

RECURSIVE Times(_, _)
\* n copies of s
Times(s, n) == IF n = 0 THEN <<>> ELSE s \o Times(s, n - 1)

\* C8: for a Request built from t, url_as_str() returns t verbatim; each
\* write that returns Ok has appended exactly t CR LF to the sink; writing
\* leaves the Request as it was, so every write emits the same bytes.
Thm_C8 ==
    request.some =>
        /\ Request_url_as_str(request.val) = call.arg
        /\ request = Some(ret.val)
        /\ (pc = "built" /\ wret = Ok(<<>>)) =>
              sink.data = Times(call.arg \o <<CR, LF>>, writes)
        /\ pc = "write_crlf" =>
              sink.data = Times(call.arg \o <<CR, LF>>, writes) \o call.arg

\* the same Request was written twice to a Vec
Wit_C8 ==
    /\ request.some /\ pc = "built" /\ writes = 2 /\ wret = Ok(<<>>)
    /\ sink.room = -1
    /\ sink.data = call.arg \o <<CR, LF>> \o call.arg \o <<CR, LF>>

(***************************************************************************)
(* Client::send_request.  The rustls session and the peer are the          *)
(* environment: a TLS record is [t, d], t its kind and d its plaintext.    *)
(***************************************************************************)
\* line 731: "1965"
DefaultPort == <<49, 57, 54, 53>>

ClientIo == [kind |-> "Io"]
ClientResponse(e) == [kind |-> "Response", source |-> e]
ClientRustls == [kind |-> "Rustls"]
BadPort == [kind |-> "BadPort"]

\* the call unwinds: `at` names the call whose Err was unwrapped
Panic(at) == [panic |-> at]

Rec(t, d) == [t |-> t, d |-> d]

\* ServerName::try_from(host).is_ok(), for the hosts of the inputs: a DNS
\* name of letters, digits, '-', '_' and '.', or an IPv4 address
is_server_name(h) ==
    /\ h # <<>>
    /\ \A i \in 1..Len(h) : h[i] \in (48..57) \cup (65..90) \cup (97..122) \cup {45, 46, 95}
    /\ h[1] \notin {45, 46}

\* Response::read of a Cursor, which never fails: lines 193-217 run to the end
Response_read_all(bytes) ==
    LET k == Find(bytes, CRLF)
    IN IF k = 0 THEN Err(MissingHeader)
       ELSE LET h == ResponseHeader_parse(SubSeq(bytes, 1, k + 1))
            IN IF h.ok THEN Ok([header |-> h.val, body |-> SubSeq(bytes, k + 2, Len(bytes))])
               ELSE Err(HeaderParse(h.err))

\* rustls ClientConnection::new: the ClientHello is queued
NewSession ==
    [up |-> TRUE, handshaking |-> TRUE, sendable_tls |-> <<Rec("ClientHello", <<>>)>>,
     sendable_plaintext |-> <<>>, deframer |-> <<>>, received_plaintext |-> <<>>,
     close_notify |-> FALSE, eof |-> FALSE]

\* rustls wants_read()
wants_read(c) ==
    /\ c.received_plaintext = <<>>
    /\ ~c.close_notify
    /\ (~c.handshaking \/ c.sendable_tls = <<>>)

\* rustls process_new_packets, one record: the session after it
ProcessRecord(c, r, tls) ==
    IF r.t = "hs_wait" THEN [c EXCEPT !.sendable_tls = Append(@, Rec("ClientFlight", <<>>))]
    ELSE IF r.t = "hs_last"
         THEN [c EXCEPT !.handshaking = FALSE,
                        !.sendable_tls =
                            (IF tls = "1.3" THEN Append(@, Rec("Finished", <<>>)) ELSE @)
                            \o c.sendable_plaintext,
                        !.sendable_plaintext = <<>>]
    ELSE IF r.t = "data" THEN [c EXCEPT !.received_plaintext = @ \o r.d]
    ELSE IF r.t = "close_notify" THEN [c EXCEPT !.close_notify = TRUE]
    ELSE c

RECURSIVE ProcessAll(_, _, _)
ProcessAll(c, rs, tls) ==
    IF rs = <<>> THEN c ELSE ProcessAll(ProcessRecord(c, rs[1], tls), Tail(rs), tls)

\* rustls process_new_packets: every record read so far is handled in order
process_new_packets(c, tls) == [ProcessAll(c, c.deframer, tls) EXCEPT !.deframer = <<>>]

\* rustls Writer::write: encrypted at once after the handshake, kept as
\* plaintext to send later during it
writer_write(c, bytes) ==
    IF c.handshaking THEN [c EXCEPT !.sendable_plaintext = Append(@, Rec("data", bytes))]
    ELSE [c EXCEPT !.sendable_tls = Append(@, Rec("data", bytes))]

\* the peer: what it sends back on receiving record r, and its next state
\* (srv.got: the request bytes received so far)
ServerOn(srv, r, arg) ==
    IF srv.st = "wait_hello" /\ r.t = "ClientHello"
    THEN IF arg.tls = "1.3"
         THEN [srv |-> [srv EXCEPT !.st = "wait_finished"],
               out |-> <<Rec("hs", <<>>), Rec("hs_last", <<>>)>>]
         ELSE [srv |-> [srv EXCEPT !.st = "wait_flight"],
               out |-> <<Rec("hs", <<>>), Rec("hs_wait", <<>>)>>]
    ELSE IF srv.st = "wait_finished" /\ r.t = "Finished"
    THEN [srv |-> [srv EXCEPT !.st = "wait_request"], out |-> <<>>]
    ELSE IF srv.st = "wait_flight" /\ r.t = "ClientFlight"
    THEN [srv |-> [srv EXCEPT !.st = "wait_request"], out |-> <<Rec("hs_last", <<>>)>>]
    ELSE IF srv.st = "wait_request" /\ r.t = "data"
    THEN LET got == srv.got \o r.d
         IN IF Find(got, CRLF) > 0
            THEN [srv |-> [st |-> "closed", got |-> got],
                  out |-> [i \in 1..Len(arg.response) |-> Rec("data", arg.response[i])]
                          \o (IF arg.end = "close_notify"
                              THEN <<Rec("close_notify", <<>>)>> ELSE <<>>)
                          \o <<Rec("eof", <<>>)>>]
            ELSE [srv |-> [srv EXCEPT !.got = got], out |-> <<>>]
    ELSE [srv |-> srv, out |-> <<>>]

RECURSIVE Deliver(_, _, _)
\* the socket after the client wrote the records rs
Deliver(n, rs, arg) ==
    IF rs = <<>> THEN n
    ELSE LET x == ServerOn(n.srv, rs[1], arg)
         IN Deliver([sent |-> Append(n.sent, rs[1]), inbound |-> n.inbound \o x.out,
                     srv |-> x.srv],
                    Tail(rs), arg)

\* the call has ended: by a return or by unwinding
Finish(r) == pc' = (IF "panic" \in DOMAIN r THEN "panicked" ELSE "done") /\ ret' = r

\* lines 729-731: url, host and port
Client_resolve ==
    /\ pc = "call" /\ call.fn = "Client::send_request"
    /\ LET url == Request_url(call.arg.r)
           port == parse_u16(IF url.port.some THEN url.port.val ELSE DefaultPort)
       IN IF port.some
          THEN /\ pc' = "tls_new"
               /\ conn' = [conn EXCEPT !.host = url.host.val, !.port = port.val]
               /\ UNCHANGED ret
          ELSE Finish(Panic("parse::<u16>")) /\ UNCHANGED conn
    /\ UNCHANGED <<call, uriVars, gemVars, readVars, requestVars, cc, net, closed, data>>

\* lines 732-735: ServerName::try_from(host).unwrap(), ClientConnection::new(..)?
Client_session_new ==
    /\ pc = "tls_new"
    /\ IF is_server_name(conn.host)
       THEN pc' = "connect" /\ cc' = NewSession /\ UNCHANGED ret
       ELSE Finish(Panic("ServerName::try_from")) /\ UNCHANGED cc
    /\ UNCHANGED <<call, uriVars, gemVars, readVars, requestVars, conn, net, closed, data>>

\* lines 732-735: ClientConnection::new fails
Client_session_new_error ==
    /\ pc = "tls_new"
    /\ is_server_name(conn.host)
    /\ Finish(Err(ClientRustls))
    /\ UNCHANGED <<call, uriVars, gemVars, readVars, requestVars, clientVars>>

\* line 736: TcpStream::connect((host, port))?
Client_connect ==
    /\ pc = "connect"
    /\ conn' = [conn EXCEPT !.connects = @ + 1,
                            !.peer = Some(<<conn.host, conn.port>>)]
    /\ pc' = "hello"
    /\ UNCHANGED <<call, uriVars, gemVars, readVars, requestVars, ret, cc, net, closed, data>>

\* line 736: the address does not resolve or the connection is refused
Client_connect_error ==
    /\ pc = "connect"
    /\ conn' = [conn EXCEPT !.connects = @ + 1]
    /\ Finish(Err(ClientIo))
    /\ UNCHANGED <<call, uriVars, gemVars, readVars, requestVars, cc, net, closed, data>>

\* lines 739 and 747: cc.write_tls(&mut sock).unwrap(), every queued record
\* goes out
Client_write_tls ==
    /\ pc \in {"hello", "flush"}
    /\ net' = Deliver(net, cc.sendable_tls, call.arg)
    /\ cc' = [cc EXCEPT !.sendable_tls = <<>>]
    /\ pc' = IF pc = "hello" THEN "read_hs" ELSE "loop"
    /\ UNCHANGED <<call, uriVars, gemVars, readVars, requestVars, ret, conn, closed, data>>

\* lines 739 and 747: the socket refuses the write
Client_write_tls_error ==
    /\ pc \in {"hello", "flush"}
    /\ cc.sendable_tls # <<>>
    /\ Finish(Panic("write_tls"))
    /\ UNCHANGED <<call, uriVars, gemVars, readVars, requestVars, clientVars>>

\* lines 741 and 752: cc.read_tls(&mut sock).unwrap() blocks until the socket
\* has something, then takes what one read returns: some of the records that
\* arrived, or nothing at the end of the stream
Client_read_tls ==
    /\ pc \in {"read_hs", "read"}
    /\ net.inbound # <<>>
    /\ IF net.inbound[1].t = "eof"
       THEN cc' = [cc EXCEPT !.eof = TRUE] /\ UNCHANGED net
       ELSE \E k \in 1..Len(net.inbound) :
               /\ \A i \in 1..k : net.inbound[i].t # "eof"
               /\ cc' = [cc EXCEPT !.deframer = @ \o SubSeq(net.inbound, 1, k)]
               /\ net' = [net EXCEPT !.inbound = SubSeq(@, k + 1, Len(@))]
    /\ pc' = IF pc = "read_hs" THEN "process_hs" ELSE "process"
    /\ UNCHANGED <<call, uriVars, gemVars, readVars, requestVars, ret, conn, closed, data>>

\* lines 741 and 752: the read fails (the connection is reset)
Client_read_tls_error ==
    /\ pc \in {"read_hs", "read"}
    /\ Finish(Panic("read_tls"))
    /\ UNCHANGED <<call, uriVars, gemVars, readVars, requestVars, clientVars>>

\* lines 743 and 753-754: cc.process_new_packets().unwrap(), and in the loop
\* closed = state.peer_has_closed()
Client_process_new_packets ==
    /\ pc \in {"process_hs", "process"}
    /\ cc' = process_new_packets(cc, call.arg.tls)
    /\ IF pc = "process_hs"
       THEN pc' = "write_req" /\ UNCHANGED closed
       ELSE pc' = "inner" /\ closed' = cc'.close_notify
    /\ UNCHANGED <<call, uriVars, gemVars, readVars, requestVars, ret, conn, net, data>>

\* lines 743 and 753: a record that does not decrypt, or an alert of the peer
Client_process_new_packets_error ==
    /\ pc \in {"process_hs", "process"}
    /\ cc.deframer # <<>>
    /\ Finish(Panic("process_new_packets"))
    /\ UNCHANGED <<call, uriVars, gemVars, readVars, requestVars, clientVars>>

\* line 745: r.write(cc.writer()).unwrap(), the session's writer takes all
Client_write_request ==
    /\ pc = "write_req"
    /\ cc' = writer_write(writer_write(cc, Request_url_as_str(call.arg.r)), RequestEnd)
    /\ pc' = "flush"
    /\ UNCHANGED <<call, uriVars, gemVars, readVars, requestVars, ret, conn, net, closed, data>>

\* line 750: while !closed
Client_loop ==
    /\ pc = "loop"
    /\ pc' = IF closed THEN "parse" ELSE "inner"
    /\ UNCHANGED <<call, uriVars, gemVars, readVars, requestVars, ret, clientVars>>

\* line 751: while cc.wants_read() && !closed
Client_inner ==
    /\ pc = "inner"
    /\ pc' = IF wants_read(cc) /\ ~closed THEN "read" ELSE "drain"
    /\ UNCHANGED <<call, uriVars, gemVars, readVars, requestVars, ret, clientVars>>

\* line 756: let _ = cc.reader().read_to_end(&mut data)
Client_drain ==
    /\ pc = "drain"
    /\ data' = data \o cc.received_plaintext
    /\ cc' = [cc EXCEPT !.received_plaintext = <<>>]
    /\ pc' = "loop"
    /\ UNCHANGED <<call, uriVars, gemVars, readVars, requestVars, ret, conn, net, closed>>

\* line 759: Ok(Response::read(std::io::Cursor::new(data))?)
Client_parse ==
    /\ pc = "parse"
    /\ LET r == Response_read_all(data)
       IN Finish(IF r.ok THEN r ELSE Err(ClientResponse(r.err)))
    /\ UNCHANGED <<call, uriVars, gemVars, readVars, requestVars, clientVars>>

\* "g://h" followed by a port component
ClientPorts ==
    {<<>>, <<58, 49>>, <<58, 49, 57, 54, 53>>, <<58, 54, 53, 53, 51, 53>>,
     <<58, 54, 53, 53, 51, 54>>, <<58, 57, 57, 57, 57, 57>>, <<58>>, <<58, 120>>,
     <<58, 43, 49>>}

\* "g://h<port>/", "g:///" and "//h/p"
ClientTexts ==
    {<<103, 58, 47, 47, 104>> \o p \o <<47>> : p \in ClientPorts}
    \cup {<<103, 58, 47, 47, 47>>, <<47, 47, 104, 47, 112>>}

\* the Requests that there are for these texts
ClientRequests == {x.val : x \in {y \in {Request_new(t) : t \in ClientTexts} : y.ok}}

\* what the peer answers, as the plaintext of its records: nothing,
\* "20 a\r\nB" in one record and in two, "20" and "7 \r\n"
ClientResponses ==
    {<<>>,
     <<(<<50, 48, SP, 97, CR, LF, 66>>)>>,
     <<(<<50, 48, SP, 97, CR, LF>>), (<<66>>)>>,
     <<(<<50, 48>>)>>,
     <<(<<55, SP, CR, LF>>)>>}

TlsVersions == {"1.3", "1.2"}
StreamEnds == {"close_notify", "eof"}

InitClient ==
    /\ call \in {[fn |-> "Client::send_request",
                   arg |-> [r |-> r, tls |-> v, end |-> e, response |-> b]] :
                      r \in ClientRequests,
                      v \in TlsVersions, e \in StreamEnds, b \in ClientResponses}
    /\ pc = "call"
    /\ ret = NoRet
    /\ NoRead
    /\ NoRequest
    /\ NoClient
    /\ NoUri
    /\ NoGemtext

NextClient ==
    \/ Client_resolve
    \/ Client_session_new
    \/ Client_session_new_error
    \/ Client_connect
    \/ Client_connect_error
    \/ Client_write_tls
    \/ Client_write_tls_error
    \/ Client_read_tls
    \/ Client_read_tls_error
    \/ Client_process_new_packets
    \/ Client_process_new_packets_error
    \/ Client_write_request
    \/ Client_loop
    \/ Client_inner
    \/ Client_drain
    \/ Client_parse

SpecClient == InitClient /\ [][NextClient]_vars

(***************************************************************************)
(* The claims about Client::send_request                                   *)
(***************************************************************************)
\* the failures of the steps of send_request that end the call by unwinding
StepPanics == {"write_tls", "read_tls", "process_new_packets"}

\* a value of the enum ClientError
IsClientError(e) == e.kind \in {"Io", "Response", "Rustls", "BadPort"}

Ended == call.fn = "Client::send_request" /\ pc \in {"done", "panicked"}

\* C9: every failure inside send_request (connect, session creation, TLS
\* record read and write, record processing, writing the request, response
\* parsing) makes the call return Err(ClientError); no failure ends the call
\* by a panic; nothing is retried: at most one connection is opened per call.
Claim_C9 ==
    /\ conn.connects <= 1
    /\ Ended =>
          /\ ~(pc = "panicked" /\ ret.panic \in StepPanics)
          /\ pc = "done" => (ret.ok \/ IsClientError(ret.err))

\* what of C9 the code does: at most one connection per call, and a call
\* that returns returns Ok or a ClientError
Lemma_C9_returns ==
    /\ conn.connects <= 1
    /\ (call.fn = "Client::send_request" /\ pc = "done") =>
          (ret.ok \/ IsClientError(ret.err))

\* the port component of the authority of a request: what follows the last
\* ':' of the text between "//" and the next '/'
PortComponent(r) ==
    LET url == Request_url(r)
    IN IF url.port.some THEN url.port
       ELSE LET c == rsplit_once(url.host.val, <<58>>)
            IN IF c.some THEN Some(c.val[2]) ELSE None

RECURSIVE Decimal(_)
Decimal(t) ==
    IF t = <<>> THEN 0 ELSE Decimal(SubSeq(t, 1, Len(t) - 1)) * 10 + (t[Len(t)] - 48)

\* a numeric port: decimal digits naming a 16-bit number
ValidPort(t) ==
    /\ t # <<>>
    /\ \A i \in 1..Len(t) : t[i] \in 48..57
    /\ Decimal(t) <= 65535

\* C10: send_request connects to port 1965 when the request URI has no port
\* and to the URI's port otherwise, and returns Err(BadPort) when the port
\* component is not a valid numeric port (empty, digits that do not fit 16
\* bits, non-digits after the last ':').
Claim_C10 ==
    call.fn = "Client::send_request" =>
        LET p == PortComponent(call.arg.r)
        IN /\ conn.peer.some =>
                 conn.peer.val[2] = (IF p.some THEN Decimal(p.val) ELSE 1965)
           /\ (Ended /\ p.some /\ ~ValidPort(p.val)) => ret = Err(BadPort)

\* what of C10 the code does: the port connected to is the URI's, or 1965
Lemma_C10_port ==
    (call.fn = "Client::send_request" /\ conn.peer.some) =>
        LET p == PortComponent(call.arg.r)
        IN conn.peer.val[2] = (IF p.some THEN Decimal(p.val) ELSE 1965)

\* the steps of the drain loop (lines 750-756): the calling thread takes them
\* whenever it is not blocked in a read; the failures of the socket and of the
\* peer are not forced to happen
ClientLoopStep ==
    \/ Client_read_tls
    \/ Client_process_new_packets
    \/ Client_loop
    \/ Client_inner
    \/ Client_drain

FairClient == SpecClient /\ WF_vars(ClientLoopStep)

RECURSIVE Flatten(_)
\* the chunks of a sequence of byte strings, joined
Flatten(ss) == IF ss = <<>> THEN <<>> ELSE ss[1] \o Flatten(Tail(ss))

\* the plaintext of the application data written to the socket so far
SentPlain == Flatten([i \in 1..Len(net.sent) |-> net.sent[i].d])

\* send_request is in its drain loop (lines 748-757)
InDrainLoop ==
    call.fn = "Client::send_request" /\ pc \in {"loop", "inner", "read", "process", "drain"}

\* C11: whatever number of round trips or partial reads the handshake needs,
\* every execution of send_request that reaches the drain loop has completed
\* the handshake and has written all wire bytes of the request (uri CR LF)
\* to the socket.
Claim_C11 ==
    InDrainLoop =>
        /\ ~cc.handshaking
        /\ SentPlain = Request_url_as_str(call.arg.r) \o <<CR, LF>>

\* what of C11 the code does: the request is handed to the writer once, so
\* what reaches the socket is a prefix of uri CR LF, and a peer that answers
\* has got exactly uri CR LF
Lemma_C11_written_once ==
    call.fn = "Client::send_request" =>
        LET wire == Request_url_as_str(call.arg.r) \o <<CR, LF>>
        IN /\ Len(SentPlain) <= Len(wire)
           /\ SentPlain = SubSeq(wire, 1, Len(SentPlain))
           /\ net.srv.st = "closed" => SentPlain = wire

\* C12: the drain loop terminates: once the peer has closed the connection
\* (by a TLS close or by ending the TCP stream) send_request eventually
\* leaves the loop (line 759 then returns), never iterating forever.
Claim_C12 == (InDrainLoop /\ net.srv.st = "closed") ~> ~InDrainLoop

\* what of C12 the code does: the buffer given to Response::read is the
\* plaintext that arrived before the TLS close, in order
Lemma_C12_buffer ==
    (call.fn = "Client::send_request" /\ pc = "parse") => data = Flatten(call.arg.response)

\* the loop of C12 that never reads: the session does not want to read, no
\* close has been seen and nothing is left to drain
Stuck_C12_no_read ==
    /\ InDrainLoop /\ pc = "inner"
    /\ ~wants_read(cc) /\ ~closed /\ cc.received_plaintext = <<>>

\* the loop of C12 at the end of a TCP stream without a TLS close
Stuck_C12_eof ==
    /\ InDrainLoop /\ pc = "inner"
    /\ cc.eof /\ wants_read(cc) /\ ~closed

(***************************************************************************)
(* uri::percent_decode                                                     *)
(***************************************************************************)
\* the value of a hexadecimal digit, -1 for another byte
HexValue(b) ==
    IF b \in 48..57 THEN b - 48
    ELSE IF b \in 97..102 THEN b - 87
    ELSE IF b \in 65..70 THEN b - 55
    ELSE -1

\* line 606, u8::from_str_radix(src, 16) of a text of two bytes: a '+' may
\* come first
from_str_radix_16(src) ==
    IF src[1] = 43
    THEN IF HexValue(src[2]) >= 0 THEN Some(HexValue(src[2])) ELSE None
    ELSE IF HexValue(src[1]) >= 0 /\ HexValue(src[2]) >= 0
         THEN Some(HexValue(src[1]) * 16 + HexValue(src[2]))
         ELSE None

\* String::push(char::from(x)) for a u8: the UTF-8 form of U+0000..U+00FF
char_from_u8(x) == IF x < 128 THEN <<x>> ELSE <<192 + (x \div 64), 128 + (x % 64)>>

\* str::is_char_boundary, for an index counted from 0
is_char_boundary(s, b) == b = 0 \/ b = Len(s) \/ (b < Len(s) /\ ~IsCont(s[b + 1]))

\* where the k-th character of s starts, k counted from 1
CharPos(s, k) ==
    CHOOSE p \in char_indices(s) : Cardinality({q \in char_indices(s) : q < p}) = k - 1

RECURSIVE percent_loop(_, _, _, _)
\* lines 595-611: the loop from the k-th character on, i = k - 1 being the
\* count of enumerate(); &s[i - 1..=i] takes bytes by that count
percent_loop(s, k, rem, o) ==
    IF k > Cardinality(char_indices(s)) THEN Some(o)
    ELSE LET p == CharPos(s, k)
             i == k - 1
         IN IF rem = 0
            THEN IF s[p] = 37 THEN percent_loop(s, k + 1, 2, o)
                 ELSE percent_loop(s, k + 1, 0, o \o SubSeq(s, p, p + Utf8Width(s[p]) - 1))
            ELSE IF rem = 2 THEN percent_loop(s, k + 1, 1, o)
            ELSE IF ~(is_char_boundary(s, i - 1) /\ is_char_boundary(s, i + 1))
                 THEN Panic("str index")
                 ELSE LET x == from_str_radix_16(SubSeq(s, i, i + 1))
                      IN IF x.some THEN percent_loop(s, k + 1, 0, o \o char_from_u8(x.val))
                         ELSE None

\* lines 591-614
percent_decode(s) == percent_loop(s, 1, 0, <<>>)

(***************************************************************************)
(* uri::Uri and uri::UriOwned: parse, own, print                           *)
(***************************************************************************)
\* "" "?q" "#f" "?q#f" "#f?q" "#f#g" "?q?r" "?q#f?r#g"
UriTails ==
    UriSuffixes
    \cup {<<35, 102, 35, 103>>, <<63, 113, 63, 114>>,
          <<63, 113, 35, 102, 63, 114, 35, 103>>}

\* "//h:1:2" "//a@b@c" "//h:1@x" "//u@:1"
UriAuthoritiesMore ==
    {<<47, 47, 104, 58, 49, 58, 50>>, <<47, 47, 97, 64, 98, 64, 99>>,
     <<47, 47, 104, 58, 49, 64, 120>>, <<47, 47, 117, 64, 58, 49>>}

UriTexts ==
    {sc \o a \o p \o x :
        sc \in UriSchemes, a \in UriAuthorities \cup UriAuthoritiesMore,
        p \in UriPaths, x \in UriTails}

\* "" "a" "%41" "a%41b" "%4" "%" "%zz" "%+4" "%E9" "%e9%41"
\* "é%41" "éé%41" "%1é" "%é1" "a%é"
PercentTexts ==
    {<<>>, <<97>>, <<37, 52, 49>>, <<97, 37, 52, 49, 98>>, <<37, 52>>, <<37>>,
     <<37, 122, 122>>, <<37, 43, 52>>, <<37, 69, 57>>, <<37, 101, 57, 37, 52, 49>>,
     <<195, 169, 37, 52, 49>>, <<195, 169, 195, 169, 37, 52, 49>>,
     <<37, 49, 195, 169>>, <<37, 195, 169, 49>>, <<97, 37, 195, 169>>}

\* lines 591-614
percent_decode_call ==
    /\ pc = "call" /\ call.fn = "percent_decode"
    /\ Finish(percent_decode(call.arg))
    /\ UNCHANGED <<call, uriVars, gemVars, readVars, requestVars, clientVars>>

\* lines 446-499
Uri_new_call ==
    /\ pc = "call" /\ call.fn = "Uri::new"
    /\ ret' = Uri_new(call.arg)
    /\ uri_ref' = IF ret'.ok THEN Some(ret'.val) ELSE None
    /\ pc' = IF ret'.ok THEN "parsed" ELSE "done"
    /\ UNCHANGED <<call, uri_owned, gemVars, readVars, requestVars, clientVars>>

\* lines 566-578
UriOwned_from_call ==
    /\ pc = "parsed"
    /\ uri_owned' = Some(UriOwned_from(uri_ref.val))
    /\ pc' = "owned"
    /\ UNCHANGED <<call, ret, uri_ref, gemVars, readVars, requestVars, clientVars>>

\* lines 580-585
UriOwned_to_string_call ==
    /\ pc = "owned"
    /\ ret' = UriOwned_to_string(uri_owned.val)
    /\ pc' = "done"
    /\ UNCHANGED <<call, uriVars, gemVars, readVars, requestVars, clientVars>>

InitUri ==
    /\ call \in {[fn |-> "Uri::new", arg |-> t] : t \in UriTexts}
               \cup {[fn |-> "percent_decode", arg |-> t] : t \in PercentTexts}
    /\ pc = "call"
    /\ ret = NoRet
    /\ NoRead
    /\ NoRequest
    /\ NoClient
    /\ NoUri
    /\ NoGemtext

NextUri ==
    \/ Uri_new_call
    \/ UriOwned_from_call
    \/ UriOwned_to_string_call
    \/ percent_decode_call

SpecUri == InitUri /\ [][NextUri]_vars

(***************************************************************************)
(* The claims about Uri                                                    *)
(***************************************************************************)
\* the positions of the byte c in s
Positions(s, c) == {i \in 1..Len(s) : s[i] = c}
First(S) == CHOOSE i \in S : \A j \in S : i <= j
Last(S) == CHOOSE i \in S : \A j \in S : j <= i
Before(s, i) == SubSeq(s, 1, i - 1)
Behind(s, i) == SubSeq(s, i + 1, Len(s))

Printed == call.fn = "Uri::new" /\ pc = "done"

\* C13: for every string s, Uri::new, then UriOwned::from, then to_string
\* yields s exactly.
Claim_C13 == Printed => ret = call.arg

\* the path that follows the authority starts with '/': the text has "//"
\* or more where the path begins
SlashPath(u) == u.host.some /\ u.path.some /\ u.path.val # <<>> /\ u.path.val[1] = 47

\* t is s without a run of '/' that follows a '/' of s
DropsSlashes(s, t) ==
    \E i \in 1..Len(t) : \E k \in 1..(Len(s) - Len(t)) :
        /\ Len(s) = Len(t) + k
        /\ t[i] = 47
        /\ i < Len(t) => t[i + 1] # 47
        /\ s = SubSeq(t, 1, i) \o [j \in 1..k |-> 47] \o SubSeq(t, i + 1, Len(t))

\* C13, as the code has it: parse, own and print yields s exactly unless the
\* path that follows the authority starts with '/'; then it yields s with
\* the '/' at the start of that path removed ("g://h//p" gives "g://h/p").
Thm_C13 ==
    Printed =>
        /\ uri_owned.val = uri_ref.val
        /\ ~SlashPath(uri_ref.val) => ret = call.arg
        /\ SlashPath(uri_ref.val) => ret # call.arg /\ DropsSlashes(call.arg, ret)

\* "g://u@h:1/p?q#f" and the like came back as they were
Wit_C13 ==
    /\ Printed /\ ret = call.arg
    /\ \A f \in {"scheme", "userinfo", "host", "port", "path", "query", "fragment"} :
          uri_ref.val[f].some /\ uri_ref.val[f].val # <<>>

\* a text with a path of slashes after the authority came back shorter
Wit_C13_slashes == Printed /\ SlashPath(uri_ref.val) /\ Len(ret) < Len(call.arg)

Parsed == call.fn = "Uri::new" /\ pc # "call"

\* C14: Uri::new splits the fragment at the last '#' of the input and then
\* the query at the last '?' of what remains, so a fragment never contains
\* '#' and a query never contains '?'.
Claim_C14 ==
    Parsed =>
        LET s == call.arg
            hs == Positions(s, 35)
            rest == IF hs = {} THEN s ELSE Before(s, Last(hs))
            qs == Positions(rest, 63)
        IN /\ uri_ref.val.fragment = (IF hs = {} THEN None ELSE Some(Behind(s, Last(hs))))
           /\ uri_ref.val.query = (IF qs = {} THEN None ELSE Some(Behind(rest, Last(qs))))
           /\ uri_ref.val.fragment.some => Positions(uri_ref.val.fragment.val, 35) = {}
           /\ uri_ref.val.query.some => Positions(uri_ref.val.query.val, 63) = {}

\* C14, as the code has it: the fragment is the text after the first '#' of
\* the input and the query the text after the first '?' of what is before
\* that '#'; a query never contains '#', and what is left for the other
\* fields contains neither '#' nor '?'.
Thm_C14 ==
    Parsed =>
        LET s == call.arg
            hs == Positions(s, 35)
            rest == IF hs = {} THEN s ELSE Before(s, First(hs))
            qs == Positions(rest, 63)
        IN /\ uri_ref.val.fragment = (IF hs = {} THEN None ELSE Some(Behind(s, First(hs))))
           /\ uri_ref.val.query = (IF qs = {} THEN None ELSE Some(Behind(rest, First(qs))))
           /\ uri_ref.val.query.some => Positions(uri_ref.val.query.val, 35) = {}
           /\ \A f \in {"scheme", "userinfo", "host", "port", "path"} :
                 uri_ref.val[f].some => Positions(uri_ref.val[f].val, 35) \cup Positions(uri_ref.val[f].val, 63) = {}

\* a fragment with a '#' and a '?' in it, after a query
Wit_C14 ==
    /\ Parsed /\ uri_ref.val.fragment.some /\ uri_ref.val.query.some
    /\ Positions(uri_ref.val.fragment.val, 35) # {}
    /\ Positions(uri_ref.val.fragment.val, 63) # {}

\* a query with a '?' in it
Wit_C14_query == Parsed /\ uri_ref.val.query.some /\ Positions(uri_ref.val.query.val, 63) # {}

(***************************************************************************)
(* Gemtext                                                                 *)
(***************************************************************************)
Fence == <<96, 96, 96>>

\* char::is_whitespace (White_Space)
is_whitespace(c) ==
    \/ c \in 9..13
    \/ c \in {32, 133, 160, 5760, 8232, 8233, 8239, 8287, 12288}
    \/ c \in 8192..8202

\* the positions of the characters of s that are whitespace
WhitespaceAt(s) == {i \in char_indices(s) : is_whitespace(CodePointAt(s, i))}

\* a tokenizer that takes every "=>" line as a link
starts_with_whitespace_or_not(s) == TRUE

\* str::starts_with(char::is_whitespace)
starts_with_whitespace(s) == s # <<>> /\ is_whitespace(CodePointAt(s, 1))

\* s from its first character that does not satisfy drop (the characters
\* at the positions drop), empty when there is none
trim_start_at(s, drop) ==
    LET keep == char_indices(s) \ drop
    IN IF keep = {} THEN <<>>
       ELSE SubSeq(s, CHOOSE i \in keep : \A j \in keep : i <= j, Len(s))

\* str::trim_start
trim_start(s) == trim_start_at(s, WhitespaceAt(s))

\* line 407: line.trim_start_matches(|x: char| x == '#' || x.is_whitespace())
trim_heading(s) == trim_start_at(s, WhitespaceAt(s) \cup {i \in 1..Len(s) : s[i] = 35})

\* line 415: line.split_once(char::is_whitespace)
split_once_whitespace(s) ==
    LET ws == WhitespaceAt(s)
    IN IF ws = {} THEN None
       ELSE LET i == CHOOSE i \in ws : \A j \in ws : i <= j
            IN Some(<<SubSeq(s, 1, i - 1), SubSeq(s, i + Utf8Width(s[i]), Len(s))>>)

\* a line of str::lines without its line ending "\n" or "\r\n"
StripEnding(l) ==
    IF l # <<>> /\ l[Len(l)] = CR THEN SubSeq(l, 1, Len(l) - 1) ELSE l

RECURSIVE str_lines(_)
\* line 379, src.lines(): the lines of src; a last line without "\n" is
\* kept as it is
str_lines(src) ==
    IF src = <<>> THEN <<>>
    ELSE LET k == Find(src, <<LF>>)
         IN IF k = 0 THEN <<src>>
            ELSE <<StripEnding(SubSeq(src, 1, k - 1))>> \o str_lines(SubSeq(src, k + 1, Len(src)))

\* the tokens
Text(line, p) == [kind |-> "Text", text |-> line, pre |-> p]
Link(url, name) == [kind |-> "Link", url |-> url, name |-> name]
Heading(text, level) == [kind |-> "Heading", text |-> text, level |-> level]

\* line 404: line.chars().filter(|x| *x == '#').count()
HashCount(line) == Cardinality({i \in 1..Len(line) : line[i] = 35})

\* lines 403-423: the token of a line under the state p
Tokenize(line, p) ==
    IF ~p.preformatted /\ starts_with(line, <<35>>)
    THEN IF HashCount(line) < 4
         THEN Heading(trim_heading(line), HashCount(line))
         ELSE Text(line, p)
    ELSE IF ~p.preformatted /\ starts_with(line, <<61, 62>>)
              /\ starts_with_whitespace(strip_prefix(line, <<61, 62>>).val)
         THEN LET l == trim_start(strip_prefix(line, <<61, 62>>).val)
                  sp == split_once_whitespace(l)
              IN IF sp.some THEN Link(sp.val[1], Some(trim_start(sp.val[2])))
                 ELSE Link(l, None)
         ELSE Text(line, p)

\* lines 391-395: self.pre after a line that starts with "```"
Toggle(p, line) ==
    IF ~p.preformatted
    THEN [preformatted |-> TRUE, alt_text |-> Some(trim_start(strip_prefix(line, Fence).val))]
    ELSE [p EXCEPT !.preformatted = FALSE]

\* a tokenizer for which a fence line is a step of its own
Gemtext_next_fence_alone(ls, p) ==
    IF ls = <<>> THEN [lines |-> ls, pre |-> p, item |-> None]
    ELSE IF starts_with(ls[1], Fence)
         THEN [lines |-> Tail(ls), pre |-> Toggle(p, ls[1]),
               item |-> Some(Text(ls[1], TokenPreformatted_default))]
         ELSE [lines |-> Tail(ls), pre |-> p, item |-> Some(Tokenize(ls[1], p))]

\* lines 388-424, Gemtext::next: the iterator after the call, and the item
Gemtext_next(ls, p) ==
    IF ls = <<>> THEN [lines |-> ls, pre |-> p, item |-> None]
    ELSE IF starts_with(ls[1], Fence)
         THEN IF Len(ls) = 1
              THEN [lines |-> <<>>, pre |-> Toggle(p, ls[1]),
                    item |-> Some(Text(ls[1], TokenPreformatted_default))]
              ELSE [lines |-> Tail(Tail(ls)), pre |-> Toggle(p, ls[1]),
                    item |-> Some(Tokenize(ls[2], Toggle(p, ls[1])))]
         ELSE [lines |-> Tail(ls), pre |-> p, item |-> Some(Tokenize(ls[1], p))]

MaxLines == 4
MaxIdle == 2

\* "```a" "```" "x" "# h": the lines of the documents with blocks
BlockLines == {Fence \o <<97>>, Fence, <<120>>, <<35, SP, 104>>}

\* lines that are headings, links and text, or nearly
MarkLines ==
    {<<>>, <<120>>,
     <<35, SP, 104>>,                          \* "# h"
     <<35, 35, 104>>,                          \* "##h"
     <<35, 35, 35, 9, 104>>,                   \* "###\th"
     <<35, 35, 35, 35, SP, 104>>,              \* "#### h"
     <<35, SP, 104, 35>>,                      \* "# h#"
     <<35, 35, SP, 104, SP, 35, 35>>,          \* "## h ##"
     <<35, SP, 35, SP, 104>>,                  \* "# # h"
     <<SP, 35, 104>>,                          \* " #h"
     <<61, 62, SP, 117>>,                      \* "=> u"
     <<61, 62, SP, 117, SP, 110>>,             \* "=> u n"
     <<61, 62, 9, SP, 117, SP, 9, 110, SP, 109>>,  \* "=>\t u \tn m"
     <<61, 62, 194, 160, 117, 194, 160, 110>>, \* "=>" U+00A0 "u" U+00A0 "n"
     <<61, 62, SP, 117, SP>>,                  \* "=> u "
     <<61, 62, SP>>,                           \* "=> "
     <<61, 62>>,                               \* "=>"
     <<61, 62, 117, SP, 110>>,                 \* "=>u n"
     <<SP, 61, 62, SP, 117>>,                  \* " => u"
     Fence \o <<SP, 9, 97, SP>>}               \* "``` \ta "

RECURSIVE Join(_, _)
\* the lines ls, each followed by the line ending nl but for the last
Join(ls, nl) ==
    IF ls = <<>> THEN <<>>
    ELSE IF Len(ls) = 1 THEN ls[1]
    ELSE ls[1] \o nl \o Join(Tail(ls), nl)

\* documents of up to MaxLines lines with blocks, documents of one or two
\* marked lines, with "\n" and "\r\n" and with and without a last line ending
GemtextDocs ==
    {Join(ls, <<LF>>) : ls \in Seqs(BlockLines, MaxLines)}
    \cup {Join(<<a, b>>, nl) \o e :
            a \in MarkLines \cup {Fence}, b \in MarkLines, nl \in {<<LF>>, CRLF},
            e \in {<<>>, <<LF>>, CRLF}}
    \cup {m \o e : m \in MarkLines, e \in {<<>>, <<LF>>, CRLF, <<LF, LF>>}}

\* lines 377-383, Gemtext::new
Gemtext_new_call ==
    /\ pc = "call" /\ call.fn = "Gemtext::new"
    /\ lines' = str_lines(call.arg)
    /\ pre' = TokenPreformatted_default
    /\ pc' = "iter"
    /\ UNCHANGED <<call, ret, out, uriVars, readVars, requestVars, clientVars>>

\* the number of calls of next() that returned None
Exhausted == Cardinality({i \in 1..Len(out) : ~out[i].some})

\* lines 388-424, one call of Gemtext::next
Gemtext_next_call ==
    /\ pc = "iter" /\ Exhausted < MaxIdle
    /\ LET n == Gemtext_next(lines, pre)
       IN /\ lines' = n.lines
          /\ pre' = n.pre
          /\ ret' = n.item
          /\ out' = Append(out, n.item)
    /\ UNCHANGED <<call, pc, uriVars, readVars, requestVars, clientVars>>

InitGemtext ==
    /\ call \in {[fn |-> "Gemtext::new", arg |-> d] : d \in GemtextDocs}
    /\ pc = "call"
    /\ ret = NoRet
    /\ NoRead
    /\ NoRequest
    /\ NoClient
    /\ NoUri
    /\ NoGemtext

NextGemtext ==
    \/ Gemtext_new_call
    \/ Gemtext_next_call

SpecGemtext == InitGemtext /\ [][NextGemtext]_vars

(***************************************************************************)
(* The claims about the Gemtext tokenizer                                  *)
(***************************************************************************)
Iterating == call.fn = "Gemtext::new" /\ pc = "iter"

\* the lines of the document, and those the tokenizer has consumed
DocLines == str_lines(call.arg)
Consumed == SubSeq(DocLines, 1, Len(DocLines) - Len(lines))

IsFence(line) == Len(line) >= 3 /\ line[1] = 96 /\ line[2] = 96 /\ line[3] = 96
FenceCount(ls) == Cardinality({i \in 1..Len(ls) : IsFence(ls[i])})

\* C15: after the tokenizer has consumed any prefix of the document's lines,
\* its preformatted flag is true if and only if that prefix contains an odd
\* number of lines beginning with three backticks.
Claim_C15 == Iterating => (pre.preformatted <=> FenceCount(Consumed) % 2 = 1)

\* what of C15 the code does: a call of next() toggles the flag exactly when
\* the line it reads first begins with three backticks
Lemma_C15_first_line ==
    [][(Iterating /\ lines # <<>>) =>
          ((pre.preformatted' # pre.preformatted) <=> IsFence(lines[1]))]_vars

\* next() has just returned a token: the line it tokenized is the last one
\* consumed
Yielded == Iterating /\ out # <<>> /\ out[Len(out)].some
LastToken == out[Len(out)].val
LastLine == Consumed[Len(Consumed)]

\* the length of the leading run of '#' of a line
LeadRun(line) ==
    Cardinality({i \in 1..Len(line) : \A j \in 1..i : line[j] = 35})

\* C16: outside a preformatted block a line whose leading run of '#' has
\* length n in 1..3 yields Heading(text, n), whatever '#' come later in the
\* line, text being the line without that run and the whitespace after it;
\* a leading run of 4 or more yields a Text token; a Heading has level 1..3.
Claim_C16 ==
    Yielded =>
        /\ LastToken.kind = "Heading" => LastToken.level \in 1..3
        /\ (~pre.preformatted /\ LeadRun(LastLine) >= 1) =>
              IF LeadRun(LastLine) <= 3
              THEN LastToken =
                     Heading(trim_start(SubSeq(LastLine, LeadRun(LastLine) + 1, Len(LastLine))),
                             LeadRun(LastLine))
              ELSE LastToken.kind = "Text"

\* what of C16 the code does: the claim holds for the lines without a '#'
\* after the leading run, and a Heading has a level in 1..3
Lemma_C16_no_later_hash ==
    Yielded =>
        /\ LastToken.kind = "Heading" => LastToken.level \in 1..3
        /\ (~pre.preformatted /\ LeadRun(LastLine) >= 1
              /\ HashCount(LastLine) = LeadRun(LastLine)) =>
              IF LeadRun(LastLine) <= 3
              THEN LastToken =
                     Heading(trim_start(SubSeq(LastLine, LeadRun(LastLine) + 1, Len(LastLine))),
                             LeadRun(LastLine))
              ELSE LastToken.kind = "Text"

\* no character of s is whitespace / all of them are
NoWhitespace(s) == WhitespaceAt(s) = {}
AllWhitespace(s) == WhitespaceAt(s) = char_indices(s)

Wit_C17_text ==
    Yielded /\ LastLine = <<61, 62, 117, SP, 110>> /\ LastToken = Text(LastLine, pre)

\* "=> u" gave a Link without a name
Wit_C17_no_name ==
    Yielded /\ LastLine = <<61, 62, SP, 117>> /\ LastToken = Link(<<117>>, None)

(***************************************************************************)
(* The claim about panics                                                  *)
(***************************************************************************)
\* C18: no parsing operation panics on any input: Uri::new and
\* percent_decode (as Request::new, ResponseHeader::parse, Response::read
\* and every step of Gemtext) return a value or a typed error, None for
\* percent_decode, also for multi-byte characters and truncated escapes.
Claim_C18 == call.fn \in {"Uri::new", "percent_decode"} => pc # "panicked"

\* what of C18 the code does: the other parsing operations always return
Lemma_C18_others ==
    call.fn \in {"Uri::new", "Request::new", "ResponseHeader::parse", "ResponseHeader::new",
                 "Response::read", "Status::try_from", "Gemtext::new"} =>
        pc # "panicked"

\* what of C18 percent_decode does: it returns when every character before
\* the end of an escape is one byte long
Lemma_C18_ascii ==
    (call.fn = "percent_decode" /\ \A i \in 1..Len(call.arg) : call.arg[i] < 128) =>
        pc # "panicked"

\* the tokens yielded so far
TokenCount == Cardinality({i \in 1..Len(out) : out[i].some})

RECURSIVE Steps(_)
\* the number of calls of next() that read the lines ls: a call that reads a
\* fence line with a line after it reads that line too
Steps(ls) ==
    IF ls = <<>> THEN 0
    ELSE IF IsFence(ls[1]) /\ Len(ls) >= 2 THEN 1 + Steps(Tail(Tail(ls)))
    ELSE 1 + Steps(Tail(ls))

\* one call of next(): what it consumes and what it yields
NextStep ==
    (Iterating /\ out' # out) =>
        IF lines = <<>>
        THEN lines' = <<>> /\ out' = Append(out, None)
        ELSE /\ Len(out') = Len(out) + 1
             /\ out'[Len(out')].some
             /\ SubSeq(out', 1, Len(out)) = out
             /\ Len(lines) - Len(lines') =
                   (IF IsFence(lines[1]) /\ Len(lines) >= 2 THEN 2 ELSE 1)
             /\ lines' = SubSeq(lines, Len(lines) - Len(lines') + 1, Len(lines))

AltTexts(ls) ==
    {trim_start(SubSeq(ls[i], 4, Len(ls[i]))) : i \in {j \in 1..Len(ls) : IsFence(ls[j])}}

\* C20: every Text token carries the preformatted context current at its
\* line: inside a block preformatted is true and alt_text is the text after
\* an opening fence, and every token is a Text token; outside any block
\* preformatted is false and no alt-text is attached.
Claim_C20 ==
    (Yielded /\ ~IsFence(LastLine)) =>
        /\ pre.preformatted => LastToken.kind = "Text"
        /\ LastToken.kind = "Text" =>
              /\ LastToken.pre.preformatted = pre.preformatted
              /\ IF pre.preformatted
                 THEN LastToken.pre.alt_text.some
                      /\ LastToken.pre.alt_text.val \in AltTexts(Consumed)
                 ELSE LastToken.pre.alt_text = None

\* what of C20 the code does: a Text token carries the state of the
\* tokenizer; while the flag is set every token is a Text token with the
\* alt-text of a fence line
Lemma_C20_flag ==
    (Yielded /\ ~IsFence(LastLine)) =>
        /\ pre.preformatted => LastToken.kind = "Text"
        /\ LastToken.kind = "Text" =>
              /\ LastToken.pre = pre
              /\ pre.preformatted =>
                    pre.alt_text.some /\ pre.alt_text.val \in AltTexts(Consumed)

\* a Text token after a closed block carries the alt-text of that block
Stale_C20 ==
    /\ Yielded /\ LastToken.kind = "Text" /\ ~IsFence(LastLine)
    /\ ~LastToken.pre.preformatted /\ LastToken.pre.alt_text = Some(<<97>>)

(***************************************************************************)
(* The claim about the authority                                           *)
(***************************************************************************)
\* what remains of the text of Uri::new after fragment, query and scheme
Remainder == CutScheme(CutQuery(CutFragment(call.arg).src).src).src

AllDigits(t) == \A i \in 1..Len(t) : t[i] \in 48..57

\* C21: when what remains after the scheme starts with "//", path is
\* everything after the first '/' that follows (absent without one); in the
\* part before it, port is the text after the last ':' exactly when that
\* text is all ASCII digits; userinfo is the text before the first '@' when
\* there is one; host is what remains, always present.  Otherwise host,
\* userinfo and port are absent and path is the whole remainder.  Uri::new
\* returns Ok for every input.
Thm_C21 ==
    Parsed =>
        /\ Uri_new(call.arg).ok
        /\ LET u == uri_ref.val
               rem == Remainder
           IN IF Len(rem) >= 2 /\ rem[1] = 47 /\ rem[2] = 47
              THEN LET a == SubSeq(rem, 3, Len(rem))
                       sl == Positions(a, 47)
                       au == IF sl = {} THEN a ELSE Before(a, First(sl))
                       cs == Positions(au, 58)
                       hasPort == cs # {} /\ AllDigits(Behind(au, Last(cs)))
                       hp == IF hasPort THEN Before(au, Last(cs)) ELSE au
                       ats == Positions(hp, 64)
                   IN /\ u.path = (IF sl = {} THEN None ELSE Some(Behind(a, First(sl))))
                      /\ u.port = (IF hasPort THEN Some(Behind(au, Last(cs))) ELSE None)
                      /\ u.userinfo = (IF ats = {} THEN None ELSE Some(Before(hp, First(ats))))
                      /\ u.host = Some(IF ats = {} THEN hp ELSE Behind(hp, First(ats)))
              ELSE /\ u.host = None /\ u.userinfo = None /\ u.port = None
                   /\ u.path = Some(rem)

\* "//h:1:2": the port is "2" and the host keeps its ':'
Wit_C21 ==
    /\ Parsed /\ uri_ref.val.port = Some(<<50>>)
    /\ uri_ref.val.host = Some(<<104, 58, 49>>) /\ uri_ref.val.path.some

\* "//a@b@c": the userinfo ends at the first '@'
Wit_C21_userinfo ==
    Parsed /\ uri_ref.val.userinfo = Some(<<97>>) /\ uri_ref.val.host = Some(<<98, 64, 99>>)

\* "g:p": without "//" the remainder is the path
Wit_C21_opaque ==
    /\ Parsed /\ uri_ref.val.scheme.some /\ uri_ref.val.host = None
    /\ uri_ref.val.path = Some(<<112>>)

\* "//h:x": what follows the last ':' is not a port
Wit_C21_no_port ==
    Parsed /\ uri_ref.val.port = None /\ uri_ref.val.host = Some(<<104, 58, 120>>)

(***************************************************************************)
(* The claim about the request line                                        *)
(***************************************************************************)
\* the Request has been written once, and the write returned Ok
WrittenOnce == request.some /\ pc = "built" /\ writes = 1 /\ wret = Ok(<<>>)

NoLineBreak(t) == \A i \in 1..Len(t) : t[i] \notin {CR, LF}

\* C22: for every text accepted by Request::new the stored URI contains no
\* CR and no LF, so the bytes emitted by Request::write contain exactly one
\* CR LF sequence, and it is the last two bytes.
Claim_C22 ==
    (call.fn = "Request::new" /\ request.some) =>
        /\ NoLineBreak(Request_url_as_str(request.val))
        /\ WrittenOnce => Matches(sink.data, <<CR, LF>>) = {Len(sink.data) - 1}

\* what of C22 the code does: a text without CR and LF is written as one
\* line, and every write ends with CR LF
Lemma_C22_one_line ==
    (call.fn = "Request::new" /\ WrittenOnce) =>
        /\ Len(sink.data) >= 2 /\ Len(sink.data) - 1 \in Matches(sink.data, <<CR, LF>>)
        /\ NoLineBreak(call.arg) => Matches(sink.data, <<CR, LF>>) = {Len(sink.data) - 1}

\* "g://h/\r\nx" was accepted and written as two lines
Split_C22 ==
    /\ call.fn = "Request::new" /\ WrittenOnce
    /\ sink.data = <<103, 58, 47, 47, 104, 47, CR, LF, 120, CR, LF>>

====
